---- MODULE Spec2Model ----
(***************************************************************************)
(* Model of src/main.py: the /consulta endpoint (validation, result cache, *)
(* single-admission semaphore, 120 s wait_for budget) and the scraper      *)
(* scrape_pje that it runs (browser lifecycle, form driving, per-link      *)
(* extraction with popups, the try / except Exception / finally boundary), *)
(* and the two extractors it applies to a popup, extract_metadata and      *)
(* extract_movements, as functions of what the popup shows.                *)
(*                                                                         *)
(* Each request r is a coroutine of the asyncio loop.  One action is one   *)
(* stretch of code between two suspension points; what the remote portal   *)
(* answers (how many links, which text, whether a popup opens, whether an  *)
(* awaited browser call raises) is drawn with \E.                          *)
(***************************************************************************)
EXTENDS Integers, Sequences, FiniteSets, TLC

\* ------------------------------------------------------------------ bounds
NumReqs == 3        \* requests sent to /consulta
MaxLinks == 2       \* links the result page may list (proc_links.count())
MaxTicks == 2       \* how many times the wall clock advances
TickLen == 150      \* seconds the wall clock advances by each time
MaxLines == 3       \* lines of a popup's body text
MaxRows == 2        \* rows a short movements table holds

Reqs == 1..NumReqs

\* ------------------------------------------------------- program constants
CACHE_TTL == 300
SCRAPE_TIMEOUT == 120
\* Variant: the gate admits two.
TwoPermits == 1 + 1

SemaInit == 1                 \* SEMA = asyncio.Semaphore(1)

Absent == "<absent>"          \* a key the dict does not hold
None == "<None>"              \* Python's None

\* Raw query parameters the requests are drawn from.  A document is a
\* sequence of one-character strings.
\* "U+0663" stands for the one character ARABIC-INDIC DIGIT THREE.
Inputs == { [ doc |-> << "-" >>, type |-> "cpf" ],
            [ doc |-> << "1", "." >>, type |-> "cpf" ],
            [ doc |-> << "2", "U+0663" >>, type |-> "CNPJ" ] }

\* Texts a result link may render: a case number, or text without one.
CaseNums == { "0000001-11.2023.4.06.0001", "0000002-22.2023.4.06.0002" }
NoCnjText == "sem numero"
LinkTexts == CaseNums \cup { NoCnjText }

\* What a detail popup holds: labelled text and movement rows, or nothing
\* that the extractors can read.
PopupPages == { "detalhe", "vazio" }

\* ------------------------------------------------------------ pure helpers
\* The characters 0-9.
AsciiDigits == { "0", "1", "2", "3", "4", "5", "6", "7", "8", "9" }

\* What \d matches in a str pattern: every Unicode decimal digit (category
\* Nd), of which the model has the ten ASCII ones and one other.
DigitChars == AsciiDigits \cup { "U+0663" }

\* re.sub(r"\D+", "", doc or ""): every maximal run of characters that \d
\* does not match is removed.
RECURSIVE sanitize_doc(_)
sanitize_doc(doc) ==
    IF doc = << >> THEN << >>
    ELSE IF Head(doc) \in DigitChars
         THEN << Head(doc) >> \o sanitize_doc(Tail(doc))
         ELSE sanitize_doc(Tail(doc))

\* type.strip().lower() on the raw types the model draws.
NormType(t) == CASE t = "cpf" -> "cpf"
                 [] t = "CPF" -> "cpf"
                 [] t = "cnpj" -> "cnpj"
                 [] t = "CNPJ" -> "cnpj"
                 [] OTHER -> t

\* tipo.upper()
UpperType(t) == CASE t = "cpf" -> "CPF"
                  [] t = "cnpj" -> "CNPJ"
                  [] OTHER -> t

\* cache_key = f"trf6:{tipo}:{doc_digits}"
CacheKey(tipo, digits) == << "trf6", tipo, digits >>

\* CNJ_RE.search(txt): the matched case number, or None.
CnjSearch(txt) == IF txt \in CaseNums THEN txt ELSE None

Range(f) == { f[k] : k \in DOMAIN f }

Min(a, b) == IF a <= b THEN a ELSE b

SeqsUpTo(S, n) == UNION { [ 1..k -> S ] : k \in 0..n }

\* Optional[str]: None is the empty set, a value v is { v }.
Nothing == {}
Just(v) == { v }


\* ---------------------------------------------------- the popup extractors
\* A text is a sequence of tokens: words, and the characters ":" and "-".
\* _norm() of it is the sequence itself; the empty text is << >>.

\* str.lower() on the words the model has.
Lower(w) == CASE w = "Assunto" -> "assunto"
              [] w = "Classe" -> "classe"
              [] OTHER -> w

LowerText(txt) == [ k \in DOMAIN txt |-> Lower(txt[k]) ]

\* Words of the model that UNWANTED_RE matches.
UnwantedWords == { "visualizar", "documento" }

\* UNWANTED_RE.search(txt), which ignores case
Unwanted(txt) == \E k \in DOMAIN txt : Lower(txt[k]) \in UnwantedWords

\* lines = [_norm(ln) for ln in body.split("\n") if _norm(ln)]
BodyLinesOf(body) == SelectSeq(body, LAMBDA ln : ln # << >>)

\* Where re.split(r"[:\-]\s*", ln, maxsplit=1) splits: the first ":" or
\* "-" of the line, 0 if it has none.
FirstSep(ln) ==
    IF \E k \in DOMAIN ln : ln[k] \in { ":", "-" }
    THEN CHOOSE k \in DOMAIN ln :
             /\ ln[k] \in { ":", "-" }
             /\ \A j \in 1..(k - 1) : ln[j] \notin { ":", "-" }
    ELSE 0

\* parts[1].strip() when len(parts) == 2, else the empty text.
RightOfSep(ln) ==
    IF FirstSep(ln) = 0 THEN << >> ELSE SubSeq(ln, FirstSep(ln) + 1, Len(ln))

\* any(k in low for k in keys_l): some key occurs in the lowercased line.
HasKey(ln, keys) ==
    \E key \in keys : \E k \in 1..Len(ln) :
        /\ k + Len(key) - 1 <= Len(ln)
        /\ SubSeq(LowerText(ln), k, k + Len(key) - 1) = LowerText(key)

\* The loop of find_value from line i on.
RECURSIVE FindValueFrom(_, _, _)
FindValueFrom(keys, lines, i) ==
    IF i > Len(lines) THEN Nothing
    ELSE IF ~HasKey(lines[i], keys) THEN FindValueFrom(keys, lines, i + 1)
    ELSE IF RightOfSep(lines[i]) # << >> /\ ~Unwanted(RightOfSep(lines[i]))
         THEN Just(RightOfSep(lines[i]))
    ELSE IF i + 1 <= Len(lines) /\ ~Unwanted(lines[i + 1])
         THEN Just(lines[i + 1])
    ELSE FindValueFrom(keys, lines, i + 1)

find_value(keys, lines) == FindValueFrom(keys, lines, 1)

\* The fields of extract_metadata and the keys each is looked up by.
FieldKeys ==
    [ assunto |-> { << "assunto" >> },
      classe_judicial |-> { << "classe", "judicial" >>, << "classe" >> },
      data_distribuicao |-> { << "distribuição" >> },
      orgao_julgador |-> { << "órgão", "julgador" >> },
      jurisdicao |-> { << "jurisdição" >>, << "comarca" >> } ]

\* extract_metadata(popup): {} when the body cannot be read.
extract_metadata(body, readable) ==
    IF ~readable THEN << >>
    ELSE [ f \in DOMAIN FieldKeys |-> find_value(FieldKeys[f], BodyLinesOf(body)) ]

\* selectors = [...]: the row selectors extract_movements tries in turn.
NumSelectors == 3

\* for i in range(min(cnt, 20))
MAX_ROWS == 20

\* texts after the row loop has gone over rows 1..upto of one selector,
\* having started with texts (and with seen holding what texts holds).  Row
\* k is appended when its text is not empty, not noise and not in seen:
\* that is, not in texts and not the text of an earlier row of the loop (an
\* earlier row with the same text was appended, or failed the same test).
ReadRows(texts, rows, upto) ==
    LET Kept(k) == /\ rows[k] # << >>
                   /\ ~Unwanted(rows[k])
                   /\ rows[k] \notin Range(texts)
                   /\ \A j \in 1..(k - 1) : rows[j] # rows[k]
        idx == SelectSeq([ k \in 1..upto |-> k ], Kept)
    IN  texts \o [ n \in 1..Len(idx) |-> rows[idx[n]] ]

\* The selector loop from selector s on.  A selector with no row is passed
\* over.  When the read of row fail.row raises, the bare except swallows
\* it, the break is not reached, and the loop goes on to the next selector
\* with the texts read so far.  Otherwise the loop ends after the selector.
RECURSIVE MovementsFrom(_, _, _, _)
MovementsFrom(tables, fail, s, texts) ==
    IF s > Len(tables) THEN texts
    ELSE IF Len(tables[s]) = 0 THEN MovementsFrom(tables, fail, s + 1, texts)
    ELSE IF fail.sel = s /\ fail.row \in 1..Min(Len(tables[s]), MAX_ROWS)
         THEN MovementsFrom(tables, fail, s + 1,
                            ReadRows(texts, tables[s], fail.row - 1))
    ELSE ReadRows(texts, tables[s], Min(Len(tables[s]), MAX_ROWS))

\* extract_movements(popup): tables[s] is the rows selector s finds.
extract_movements(tables, fail) == MovementsFrom(tables, fail, 1, << >>)

\* Inputs of the extractors: lines a body may hold ...
BodyLines ==
    { << "Assunto", ":", "dano" >>,
      << "Assunto", ":", "visualizar" >>,
      << "Assunto" >>,
      << "Classe", "-" >>,
      << "documento", "1" >>,
      << "dano", "moral" >>,
      << >> }

\* ... texts a movement row may hold ...
RowTexts == { << "a" >>, << "b" >>, << "visualizar" >>, << >> }

\* ... and the tables a selector may find: short ones, and one that is one
\* row longer than the cap.
LongTable == [ k \in 1..(MAX_ROWS + 1) |-> << "mov", ToString(k) >> ]

Tables == SeqsUpTo(RowTexts, MaxRows) \cup { LongTable }

\* The row reads that can raise in a popup with these tables.
Fails(tables) ==
    { [ sel |-> s, row |-> k ] : s \in DOMAIN tables, k \in 1..MAX_ROWS }

\* ------------------------------------------------------------------- state
VARIABLES
    now,        \* time.time(), in seconds
    sema,       \* SEMA._value
    waiters,    \* SEMA._waiters: requests blocked in acquire(), in order
    cache,      \* _cache: cache_key -> [ts, data]
    req,        \* per request: the state of the consulta coroutine
    sent,       \* the HTTP response sent last: status and body
    sc,         \* per request: the state of its scrape_pje task
    popup       \* a detail popup handed to the extractors on its own

vars == << now, sema, waiters, cache, req, sent, sc, popup >>

\* The result dict scrape_pje builds first.  Its "timestamp" entry, which
\* is written here and never read again, is left out.
NewResult(digits, tipo) ==
    [ documento |-> digits, tipo |-> UpperType(tipo),
      processos |-> << >>, mensagem |-> Absent, erro_interno |-> Absent ]

ReqInit ==
    [ pc |-> "idle", raw |-> << >>, rtype |-> "cpf", t0 |-> 0,
      cancelSent |-> FALSE ]

\* An answer: the HTTP status, and the JSON body if it is 200.
Response(status, body) == [ status |-> status, body |-> body ]

\* A scrape_pje task that has not been created.
ScInit ==
    [ pc |-> "none", browser |-> "none", result |-> NewResult(<< >>, "cpf"),
      count |-> 0, i |-> 0, seen |-> {}, numero |-> None, partes |-> None,
      popups |-> 0, pending |-> "none", steps |-> << >>, texts |-> << >> ]

\* The module is loaded: the gate is free, the cache empty, no request yet.
ServerInit ==
    /\ now = 0
    /\ sema = SemaInit
    /\ waiters = << >>
    /\ cache = << >>
    /\ req = [ r \in Reqs |-> ReqInit ]
    /\ sent = Response(0, << >>)
    /\ sc = [ r \in Reqs |-> ScInit ]

\* A popup for the extractors: its body text (a sequence of lines, or
\* unreadable), the rows each movements selector finds, the row read that
\* raises (if any), and what the extractors returned for it.
PopupOf(body, readable, tables, fail) ==
    [ pc |-> "open", body |-> body, readable |-> readable, tables |-> tables,
      fail |-> fail, meta |-> << >>, movs |-> << >> ]

\* No row read raises.
NoFail == [ sel |-> 0, row |-> 0 ]

NoPopup == PopupOf(<< >>, FALSE, << >>, NoFail)

Init ==
    /\ ServerInit
    /\ popup = NoPopup

Tipo(r) == NormType(req[r].rtype)
DocDigits(r) == sanitize_doc(req[r].raw)
KeyOf(r) == CacheKey(Tipo(r), DocDigits(r))


\* ------------------------------------------------- consulta: cache and gate

\* Variant: an entry aged exactly CACHE_TTL still counts as fresh.
CacheFreshInclusive(ts, t) == (t - ts) <= CACHE_TTL

\* (time.time() - cached["ts"]) < CACHE_TTL
CacheFresh(ts, t) == (t - ts) < CACHE_TTL

\* Variant: the cache is not looked at.
CacheNeverHit(key) == FALSE

\* cached and (time.time() - cached["ts"]) < CACHE_TTL
CacheHit(key) == key \in DOMAIN cache /\ CacheFresh(cache[key].ts, now)

\* asyncio.Semaphore.locked(): no permit left, or somebody already queued.
Locked == sema = 0 \/ waiters # << >>

\* The task asyncio.wait_for creates for scrape_pje(doc_digits, tipo): the
\* result dict is built, then the coroutine suspends in async_playwright().
StartScrape(digits, tipo) ==
    [ ScInit EXCEPT !.pc = "launch", !.result = NewResult(digits, tipo) ]

\* The coroutine of a request ends: its locals are gone.
Finished(q) == [ ReqInit EXCEPT !.pc = "done" ]

\* GET /consulta?doc=..&type=.. up to the first suspension: validation, the
\* cache lookup, and the entry into "async with SEMA".  Requests are
\* interchangeable, so they arrive in the order of their ids.
ArriveWith(r, in) ==
    /\ req[r].pc = "idle"
    /\ \A q \in Reqs : q < r => req[q].pc # "idle"
    /\   LET tipo == NormType(in.type)
             digits == sanitize_doc(in.doc)
             key == CacheKey(tipo, digits)
             base == [ req[r] EXCEPT !.raw = in.doc, !.rtype = in.type ]
         IN  IF digits = << >>
             THEN \* HTTPException(400, "documento_vazio")
                  /\ req' = [ req EXCEPT ![r] =
                                Finished(base) ]
                  /\ sent' = Response(400, << >>)
                  /\ UNCHANGED << sema, waiters, sc >>
             ELSE IF CacheHit(key)
             THEN \* return cached["data"]
                  /\ req' = [ req EXCEPT ![r] =
                                Finished(base) ]
                  /\ sent' = Response(200, << cache[key].data >>)
                  /\ UNCHANGED << sema, waiters, sc >>
             ELSE IF ~Locked
             THEN \* async with SEMA: acquired at once; wait_for starts the task
                  /\ sema' = sema - 1
                  /\ req' = [ req EXCEPT ![r] =
                                [ base EXCEPT !.pc = "running", !.t0 = now ] ]
                  /\ sc' = [ sc EXCEPT ![r] = StartScrape(digits, tipo) ]
                  /\ UNCHANGED << waiters, sent >>
             ELSE \* async with SEMA: blocked in acquire()
                  /\ waiters' = Append(waiters, r)
                  /\ req' = [ req EXCEPT ![r] = [ base EXCEPT !.pc = "waiting" ] ]
                  /\ UNCHANGED << sema, sc, sent >>
    /\ UNCHANGED << now, cache, popup >>

Arrive(r) == \E in \in Inputs : ArriveWith(r, in)

\* A blocked acquire() returns: the first waiter takes the released permit.
Admit(r) ==
    /\ req[r].pc = "waiting"
    /\ sema > 0
    /\ waiters # << >> /\ Head(waiters) = r
    /\ sema' = sema - 1
    /\ waiters' = Tail(waiters)
    /\ req' = [ req EXCEPT ![r].pc = "running", ![r].t0 = now ]
    /\ sc' = [ sc EXCEPT ![r] = StartScrape(DocDigits(r), Tipo(r)) ]
    /\ UNCHANGED << now, cache, sent, popup >>

\* Variant: the result is returned without being stored.
CacheStoreSkipped(c, key, t, data) == c

\* _cache[cache_key] = {"ts": time.time(), "data": data}
CacheStore(c, key, t, data) == (key :> [ ts |-> t, data |-> data ]) @@ c

\* Variant: the permit is kept on leaving the block.
ReleaseForgotten(v) == v

\* SEMA.release() on leaving the async with block.
Release(v) == v + 1

\* wait_for returned data: store it, leave the gate, answer with it.
Store(r) ==
    /\ req[r].pc = "running"
    /\ sc[r].pc = "returned"
    /\ cache' = CacheStore(cache, KeyOf(r), now, sc[r].result)
    /\ sema' = Release(sema)
    /\ req' = [ req EXCEPT ![r] = Finished(req[r]) ]
    /\ sent' = Response(200, << sc[r].result >>)
    /\ sc' = [ sc EXCEPT ![r] = ScInit ]
    /\ UNCHANGED << now, waiters, popup >>

\* except asyncio.TimeoutError: HTTPException(504, "timeout_trf6")
TimeoutOut(r) ==
    /\ req[r].pc = "running"
    /\ sc[r].pc = "cancelled"
    /\ sema' = Release(sema)
    /\ req' = [ req EXCEPT ![r] = Finished(req[r]) ]
    /\ sent' = Response(504, << >>)
    /\ sc' = [ sc EXCEPT ![r] = ScInit ]
    /\ UNCHANGED << now, waiters, cache, popup >>

\* except Exception as e: HTTPException(500, str(e))
ErrorOut(r) ==
    /\ req[r].pc = "running"
    /\ sc[r].pc = "raised"
    /\ sema' = Release(sema)
    /\ req' = [ req EXCEPT ![r] = Finished(req[r]) ]
    /\ sent' = Response(500, << >>)
    /\ sc' = [ sc EXCEPT ![r] = ScInit ]
    /\ UNCHANGED << now, waiters, cache, popup >>

\* The wall clock advances.
Tick ==
    /\ now < MaxTicks * TickLen
    /\ now' = now + TickLen
    /\ UNCHANGED << sema, waiters, cache, req, sent, sc, popup >>


\* -------------------------------------------------------------- scrape_pje

Running(r, p) == req[r].pc = "running" /\ sc[r].pc = p

\* One step of request r's scrape_pje task; nothing else changes.
ScStep(r, next) ==
    /\ sc' = [ sc EXCEPT ![r] = next ]
    /\ UNCHANGED << now, sema, waiters, cache, req, sent, popup >>

Did(s, name) == [ s EXCEPT !.steps = Append(@, name) ]

\* Variant: the finally clause leaves the browser as it is.
CloseBrowserForgotten(b) == b

\* await browser.close()
CloseBrowser(b) == "closed"

\* Leaving "async with async_playwright()": the driver stops, and a browser
\* it still runs goes down with it.
StopDriver(b) == IF b = "open" THEN "killed" ELSE b

\* Variant: no except clause, only try / finally.
CatchesNothing(kind) == FALSE

\* "except Exception as e": what the orchestrator's handler catches.
\* asyncio.CancelledError derives from BaseException and passes through.
OrchestratorCatches(kind) == kind = "Exception"

\* str(e) of an exception raised by the awaited call of step p.
ErrText(p) == "erro do playwright"

\* The job of the except clause: result["erro_interno"] = str(e), then on to
\* the finally clause; what it does not catch reaches finally still raised.
Thrown(s, kind, text) ==
    IF OrchestratorCatches(kind)
    THEN [ s EXCEPT !.result.erro_interno = text, !.pc = "finally",
                    !.pending = "return" ]
    ELSE [ s EXCEPT !.pc = "finally",
                    !.pending = IF kind = "CancelledError" THEN "cancel"
                                ELSE "raise" ]

\* async_playwright() and chromium.launch(...)
Launch(r) ==
    /\ Running(r, "launch")
    /\ ScStep(r, Did([ sc[r] EXCEPT !.pc = "context", !.browser = "open" ],
                     "Launch"))

\* browser.new_context(...) and context.new_page()
NewPage(r) ==
    /\ Running(r, "context")
    /\ ScStep(r, [ sc[r] EXCEPT !.pc = "goto" ])

\* page.goto(URL, wait_until="networkidle", timeout=60000)
Goto(r) ==
    /\ Running(r, "goto")
    /\ ScStep(r, Did([ sc[r] EXCEPT !.pc = "select" ], "Navigate"))

\* selecionar_tipo_documento_trf6: clicks the radio if some frame has it;
\* every failure inside is swallowed, and nothing is returned.
SelectKind(r) ==
    /\ Running(r, "select")
    /\ ScStep(r, Did([ sc[r] EXCEPT !.pc = "find" ], "SelectKind"))

\* Variant: the missing input is not checked and the form is driven anyway.
InputMissingIgnored(s) == Did([ s EXCEPT !.pc = "fill" ], "LocateInput")

\* if not doc_input: raise Exception("campo_input_nao_encontrado")
InputMissing(s) ==
    Thrown(Did(s, "LocateInput"), "Exception", "campo_input_nao_encontrado")

\* find_input_trf6 and the check of what it returned; found says whether
\* some frame shows the input.
FindInputWith(r, found) ==
    /\ Running(r, "find")
    /\ ScStep(r, IF found
                 THEN Did([ sc[r] EXCEPT !.pc = "fill" ], "LocateInput")
                 ELSE InputMissing(sc[r]))

FindInput(r) == \E found \in BOOLEAN : FindInputWith(r, found)

\* doc_input.click(); doc_input.fill(doc_digits)
Fill(r) ==
    /\ Running(r, "fill")
    /\ ScStep(r, Did([ sc[r] EXCEPT !.pc = "submit" ], "Fill"))

\* The search button is clicked if the frame has it (button), else Enter is
\* pressed on the input.  A click that fails (not clicked) raises into the
\* except clause of scrape_pje: nothing around it catches.
SubmitWith(r, button, clicked) ==
    /\ Running(r, "submit")
    /\ ScStep(r, IF button /\ ~clicked
                 THEN Thrown(sc[r], "Exception", ErrText("submit"))
                 ELSE Did([ sc[r] EXCEPT !.pc = "wait" ], "Submit"))

Submit(r) == \E button, clicked \in BOOLEAN : SubmitWith(r, button, clicked)

\* wait_spinner_or_delay(page)
Wait(r) ==
    /\ Running(r, "wait")
    /\ ScStep(r, Did([ sc[r] EXCEPT !.pc = "check" ], "AwaitResults"))

\* The first proc_links.count() and, when it is 0, the look for the
\* "Nao foram encontrados dados" phrase in page.content().
Check(r) ==
    /\ Running(r, "check")
    /\ \E n \in 0..MaxLinks, phrase \in BOOLEAN :
         ScStep(r, IF n = 0 /\ phrase
                   THEN Did([ sc[r] EXCEPT
                                !.result.mensagem = "nenhum_processo_encontrado",
                                !.pc = "finally", !.pending = "return" ],
                            "NoResults")
                   ELSE [ sc[r] EXCEPT !.pc = "count" ])

\* Variant: the loop index is not advanced.
IterateAgain(s, i) ==
    IF s.i < s.count
    THEN [ s EXCEPT !.pc = "link" ]
    ELSE [ s EXCEPT !.pc = "finally", !.pending = "return" ]

\* for i in range(count): on to link i if there is one; after the last one
\* the try block ends and the finally clause runs.
Iterate(s, i) ==
    IF i < s.count
    THEN [ s EXCEPT !.i = i, !.pc = "link" ]
    ELSE [ s EXCEPT !.i = i, !.pc = "finally", !.pending = "return" ]

\* count = await proc_links.count(); seen_nums = set(); the loop starts.
\* The page lists at most max links.
CountUpTo(r, max) ==
    /\ Running(r, "count")
    /\ \E n \in 0..max :
         LET s == [ sc[r] EXCEPT !.count = n, !.seen = {} ]
         IN  ScStep(r, Iterate(IF n > 0 THEN Did(s, "Extract") ELSE s, 0))

Count(r) == CountUpTo(r, MaxLinks)

\* The same step on a portal that lists no link.
CountNone(r) == CountUpTo(r, 0)

\* Variant: seen_nums is never consulted.
NeverSeen(numero, seen) == FALSE

\* numero in seen_nums
SeenBefore(numero, seen) == numero \in seen

\* The row text extract_partes_from_row reads for link i.
RowText(i) == "texto da linha"

\* One pass over the head of the loop body: read the link's text, skip it if
\* it has no case number or a known one, else note the number and read its row.
\* texts is history: the text each link showed when it was read.
Link(r) ==
    /\ Running(r, "link")
    /\ \E txt \in LinkTexts, partes \in { RowText(sc[r].i), None } :
         LET numero == CnjSearch(txt)
             s == [ sc[r] EXCEPT !.texts = Append(@, txt) ]
         IN  ScStep(r, IF numero = None \/ SeenBefore(numero, s.seen)
                       THEN Iterate(s, s.i + 1)
                       ELSE [ s EXCEPT !.seen = @ \cup { numero },
                                       !.numero = numero,
                                       !.partes = partes,
                                       !.pc = "popup" ])

\* Variant: the partial record carries no warning.
PartialRecordUnflagged(s, opened) ==
    [ numero |-> s.numero, aviso |-> Absent, resumo |-> s.partes,
      partes_resumo |-> Absent, meta |-> Absent, movimentacoes |-> Absent,
      link |-> s.i, popupOpened |-> opened ]

\* The record appended when open_process_popup returned None.  link and
\* popupOpened are history: the link's index, and whether its click did open
\* a window.
PartialRecord(s, opened) ==
    [ numero |-> s.numero, aviso |-> "popup_nao_abriu", resumo |-> s.partes,
      partes_resumo |-> Absent, meta |-> Absent, movimentacoes |-> Absent,
      link |-> s.i, popupOpened |-> opened ]

\* The body text and the movement rows of the two popups of PopupPages.
PageBody(page) ==
    IF page = "detalhe" THEN << << "Assunto", ":", "dano" >> >> ELSE << >>

PageTables(page) ==
    IF page = "detalhe" THEN << << >>, << << "a" >> >>, << >> >>
    ELSE << << >>, << >>, << >> >>

\* extract_metadata(popup) on these popups.
MetaOf(page) == extract_metadata(PageBody(page), page = "detalhe")

\* extract_movements(popup) on these popups.
MovsOf(page) == extract_movements(PageTables(page), NoFail)

\* The record appended when the popup opened.
FullRecord(s, page) ==
    [ numero |-> s.numero, aviso |-> Absent, resumo |-> Absent,
      partes_resumo |-> s.partes, meta |-> MetaOf(page),
      movimentacoes |-> MovsOf(page), link |-> s.i, popupOpened |-> TRUE ]

\* What open_process_popup returns for each way the click can end:
\* "opened" (window came up and loaded), "timeout" (expect_popup timed
\* out), "load_timeout" (window came up, wait_for_load_state timed out).
\* Both timeouts are PlaywrightTimeoutError and give None.
PopupReturned(outcome) == IF outcome = "opened" THEN "popup" ELSE None

\* Whether a window was opened by the click.
WindowOpened(outcome) == outcome \in { "opened", "load_timeout" }

PopupOutcomes == { "opened", "timeout", "load_timeout" }

\* popup = await open_process_popup(page, link) and, when it is None, the
\* else branch that appends the partial record.
PopupWith(r, outcome) ==
    /\ Running(r, "popup")
    /\ LET s == sc[r]
           n == IF WindowOpened(outcome) THEN s.popups + 1 ELSE s.popups
       IN  ScStep(r, IF PopupReturned(outcome) # None
                     THEN [ s EXCEPT !.popups = n, !.pc = "extract" ]
                     ELSE Iterate([ s EXCEPT !.popups = n,
                                      !.result.processos =
                                          Append(@, PartialRecord(s, WindowOpened(outcome))) ],
                                  s.i + 1))

Popup(r) == \E outcome \in PopupOutcomes : PopupWith(r, outcome)

\* extract_metadata, extract_movements, append the record, popup.close().
Extract(r) ==
    /\ Running(r, "extract")
    /\ \E page \in PopupPages :
         LET s == sc[r]
         IN  ScStep(r, Iterate([ s EXCEPT !.result.processos =
                                              Append(@, FullRecord(s, page)),
                                          !.popups = @ - 1 ],
                                  s.i + 1))

\* finally: await browser.close(); then the function returns result, or the
\* exception still in flight leaves it.
Finally(r) ==
    /\ Running(r, "finally")
    /\ LET s == sc[r]
       IN  ScStep(r, Did([ s EXCEPT !.browser = CloseBrowser(s.browser),
                             !.pc = CASE s.pending = "return" -> "returned"
                                      [] s.pending = "cancel" -> "cancelled"
                                      [] OTHER -> "raised" ],
                         "Teardown"))

\* Steps of the try block whose awaited call can raise into the handler.
TrySteps == { "goto", "fill", "submit", "wait", "check", "count", "link",
              "popup", "extract" }

\* An awaited browser call of the try block raises an Exception.  At
\* "popup" the window may or may not have come up before the failure.
Raise(r) ==
    /\ req[r].pc = "running"
    /\ sc[r].pc \in TrySteps
    /\ \E up \in { 0, 1 } :
         /\ up = 1 => sc[r].pc = "popup"
         /\ ScStep(r, Thrown([ sc[r] EXCEPT !.popups = @ + up ], "Exception",
                             ErrText(sc[r].pc)))

\* launch, new_context or new_page raises: these lie outside the try block,
\* so the exception leaves scrape_pje through the async with.
RaiseOutside(r) ==
    /\ req[r].pc = "running"
    /\ sc[r].pc \in { "launch", "context" }
    /\ ScStep(r, [ sc[r] EXCEPT !.pc = "raised",
                                !.browser = StopDriver(@) ])


\* ------------------------------------------------- the 120 s budget expires

\* Steps with an awaited call that lets a CancelledError through to the
\* orchestrator's try block (not wrapped in a bare "except:").
CanPropagate(p) == p \in TrySteps

\* Steps with an awaited call inside a bare "except:" (the frame scans, the
\* spinner waits, the row read, the first click, the popup extractors): a
\* CancelledError raised there is swallowed and the step goes on.
CanSwallow(p) == p \in { "select", "find", "wait", "link", "popup", "extract" }

\* asyncio.wait_for(..., timeout=120) cancels the task once, when the budget
\* is spent; the CancelledError is raised at the call the task is awaiting.
Cancel(r) ==
    /\ req[r].pc = "running"
    /\ ~req[r].cancelSent
    /\ now - req[r].t0 >= SCRAPE_TIMEOUT
    /\ sc[r].pc \notin { "none", "returned", "cancelled", "raised" }
    /\ req' = [ req EXCEPT ![r].cancelSent = TRUE ]
    /\ \/ \* outside the try block, or inside the finally clause
          /\ sc[r].pc \in { "launch", "context", "finally" }
          /\ sc' = [ sc EXCEPT ![r].pc = "cancelled",
                               ![r].browser = StopDriver(@) ]
       \/ \* inside the try block: not an Exception, so on to finally
          /\ CanPropagate(sc[r].pc)
          /\ \E up \in { 0, 1 } :
               /\ up = 1 => sc[r].pc = "popup"
               /\ sc' = [ sc EXCEPT ![r] =
                            Thrown([ sc[r] EXCEPT !.popups = @ + up ],
                                   "CancelledError", "") ]
       \/ \* inside a bare except: swallowed
          /\ CanSwallow(sc[r].pc)
          /\ sc' = sc
    /\ UNCHANGED << now, sema, waiters, cache, sent, popup >>

\* ------------------------------------------------------------ specification

\* The consulta coroutine of request r, from its arrival to its answer.
Serve(r) ==
    \/ Arrive(r)
    \/ Store(r)
    \/ TimeoutOut(r)
    \/ ErrorOut(r)

\* The scrape_pje task of request r up to the result page, and its exits.
Drive(r) ==
    \/ Launch(r)
    \/ NewPage(r)
    \/ Goto(r)
    \/ SelectKind(r)
    \/ FindInput(r)
    \/ Fill(r)
    \/ Submit(r)
    \/ Wait(r)
    \/ Check(r)
    \/ Finally(r)
    \/ Raise(r)
    \/ RaiseOutside(r)
    \/ Cancel(r)

\* The loop of scrape_pje over the links of the result page.
Harvest(r) ==
    \/ Count(r)
    \/ Link(r)
    \/ Popup(r)
    \/ Extract(r)

\* One request, served against a portal that lists up to MaxLinks links.
Next ==
    \/ Tick
    \/ Serve(1)
    \/ Drive(1)
    \/ Harvest(1)

Spec == Init /\ [][Next]_vars

\* NumReqs requests sharing the gate and the cache, served against a portal
\* that lists no link.
NextGate ==
    \/ Tick
    \/ \E r \in Reqs :
         \/ Serve(r)
         \/ Admit(r)
         \/ Drive(r)
         \/ CountNone(r)

SpecGate == Init /\ [][NextGate]_vars

\* What the event loop runs when it is ready to run: a blocked acquire() that
\* got the permit, the next step of a scrape_pje task (its awaited call
\* returns, raises or is cancelled), the rest of consulta once the task ended.
Progress ==
    \E r \in Reqs :
        \/ Admit(r)
        \/ Drive(r)
        \/ CountNone(r)
        \/ Store(r)
        \/ TimeoutOut(r)
        \/ ErrorOut(r)

\* SpecGate on an event loop that runs every ready callback, against a
\* browser whose awaited calls all end.  Requests and clock ticks come as
\* they like.
SpecGateFair == SpecGate /\ WF_vars(Progress)

\* extract_metadata applied to a popup body of up to MaxLines lines.
InitMeta ==
    /\ ServerInit
    /\ \E body \in SeqsUpTo(BodyLines, MaxLines), readable \in BOOLEAN :
         popup = PopupOf(body, readable, << >>, NoFail)

ReadMeta ==
    /\ popup.pc = "open"
    /\ popup' = [ popup EXCEPT !.pc = "read",
                     !.meta = extract_metadata(popup.body, popup.readable) ]
    /\ UNCHANGED << now, sema, waiters, cache, req, sent, sc >>

NextMeta == ReadMeta

SpecMeta == InitMeta /\ [][NextMeta]_vars

\* extract_movements applied to a popup whose selectors find these tables.
InitMovs ==
    /\ ServerInit
    /\ \E tables \in [ 1..NumSelectors -> Tables ] :
         \E fail \in { NoFail } \cup
                     { f \in Fails(tables) : f.row <= Len(tables[f.sel]) } :
             popup = PopupOf(<< >>, TRUE, tables, fail)

ReadMovs ==
    /\ popup.pc = "open"
    /\ popup' = [ popup EXCEPT !.pc = "read",
                     !.movs = extract_movements(popup.tables, popup.fail) ]
    /\ UNCHANGED << now, sema, waiters, cache, req, sent, sc >>

NextMovs == ReadMovs

SpecMovs == InitMovs /\ [][NextMovs]_vars


\* ------------------------------------------------------------------ helpers
Last(f) == f[Len(f)]

Procs(r) == sc[r].result.processos

\* The steps of a run that drove the form, found no link and no "no
\* records" phrase, and went to the finally clause.
QuietRun ==
    << "Launch", "Navigate", "SelectKind", "LocateInput", "Fill", "Submit",
       "AwaitResults", "Teardown" >>

\* ------------------------------------------------------- C1 .. C7 (Spec)

\* C1: whenever scrape_pje returns its result to the caller (after a complete
\* extraction, after the "no records" early return, or after an exception
\* caught by the except clause), the browser it launched has been closed.
C1_BrowserClosedOnReturn ==
    \A r \in Reqs :
        sc[r].pc = "returned" =>
            /\ "Launch" \in Range(sc[r].steps)
            /\ sc[r].browser = "closed"

\* Reached: a run returns after an exception was caught with one record
\* already appended.
C1_Witness ==
    \E r \in Reqs :
        /\ sc[r].pc = "returned"
        /\ sc[r].result.erro_interno = ErrText("link")
        /\ Len(Procs(r)) = 1
        /\ sc[r].browser = "closed"

\* C2: an Exception raised by an awaited call of the try block (goto, fill,
\* submit, wait, the counts, the per-link steps) is caught: the run goes to
\* the finally clause with erro_interno = str(e) and the records appended so
\* far, then returns exactly that result unless it is cancelled; only an
\* exception of launch / new_context / new_page leaves scrape_pje raised.
C2_ExceptionCaught ==
    [][ \A r \in Reqs :
          /\ Raise(r) =>
               /\ sc'[r].pc = "finally"
               /\ sc'[r].pending = "return"
               /\ sc'[r].result =
                      [ sc[r].result EXCEPT !.erro_interno = ErrText(sc[r].pc) ]
          /\ ( /\ sc[r].pc = "finally"
               /\ sc[r].pending = "return"
               /\ sc'[r].pc # "finally" ) =>
               \/ sc'[r].pc = "returned" /\ sc'[r].result = sc[r].result
               \/ sc'[r].pc = "cancelled" /\ req'[r].cancelSent
          /\ sc'[r].pc = "raised" => sc[r].pc \in { "launch", "context", "raised" }
      ]_vars

\* Reached: a run has returned a result that holds the exception text and a
\* record appended before the failure.
C2_Witness ==
    \E r \in Reqs :
        /\ sc[r].pc = "returned"
        /\ sc[r].result.erro_interno = ErrText("popup")
        /\ Len(Procs(r)) = 1
        /\ Procs(r)[1].aviso = Absent

\* C3 (as claimed): a run that found no link and no "no records" phrase
\* returns mensagem = "nenhum_processo_encontrado_no_tempo_limite", an empty
\* processos list, and has not entered the extraction loop.
C3_TimeLimitMessage ==
    \A r \in Reqs :
        ( /\ sc[r].pc = "returned"
          /\ sc[r].steps = QuietRun
          /\ sc[r].result.erro_interno = Absent ) =>
            /\ sc[r].result.mensagem = "nenhum_processo_encontrado_no_tempo_limite"
            /\ Procs(r) = << >>
            /\ "Extract" \notin Range(sc[r].steps)

\* C4: the case numbers of processos are pairwise distinct, each record comes
\* from the first link (in index order) that showed its number, and a popup is
\* only ever asked for at such a first link.
C4_FirstOccurrenceWins ==
    \A r \in Reqs :
        LET ps == Procs(r)
            tx == sc[r].texts
        IN  /\ \A a, b \in DOMAIN ps : ps[a].numero = ps[b].numero => a = b
            /\ \A a, b \in DOMAIN ps : a < b => ps[a].link < ps[b].link
            /\ \A a \in DOMAIN ps :
                 /\ ps[a].link + 1 \in DOMAIN tx
                 /\ tx[ps[a].link + 1] = ps[a].numero
                 /\ \A k \in 1..ps[a].link : tx[k] # ps[a].numero
            /\ sc[r].pc \in { "popup", "extract" } =>
                 /\ tx[sc[r].i + 1] = sc[r].numero
                 /\ \A k \in 1..sc[r].i : tx[k] # sc[r].numero
                 /\ \A a \in DOMAIN ps : ps[a].numero # sc[r].numero

\* Reached: two links showed the same case number and the returned result has
\* the single record of the first.
C4_Witness ==
    \E r \in Reqs :
        /\ sc[r].pc = "returned"
        /\ Len(sc[r].texts) = 2
        /\ sc[r].texts[1] = sc[r].texts[2]
        /\ Len(Procs(r)) = 1
        /\ Procs(r)[1].link = 0

\* C5: when expect_popup times out for a link, the run appends for the
\* link's case number a record with aviso = "popup_nao_abriu" and no
\* metadata, sets no erro_interno, and moves on to the next link (or, after
\* the last link, to the finally clause, about to return).
C5_PopupTimeoutGivesPartial ==
    [][ \A r \in Reqs :
          PopupWith(r, "timeout") =>
            LET rec == Last(sc'[r].result.processos)
            IN  /\ Len(sc'[r].result.processos) = Len(Procs(r)) + 1
                /\ rec.numero = sc[r].numero
                /\ rec.aviso = "popup_nao_abriu"
                /\ rec.meta = Absent
                /\ rec.movimentacoes = Absent
                /\ ~rec.popupOpened
                /\ sc'[r].result.erro_interno = Absent
                /\ sc'[r].popups = sc[r].popups
                /\ sc'[r].i = sc[r].i + 1
                /\ IF sc'[r].i < sc[r].count
                   THEN sc'[r].pc = "link"
                   ELSE sc'[r].pc = "finally" /\ sc'[r].pending = "return"
      ]_vars

\* Reached: the first link's popup did not open, and the run went on and read
\* the second link's popup.
C5_Witness ==
    \E r \in Reqs :
        /\ sc[r].pc = "returned"
        /\ sc[r].result.erro_interno = Absent
        /\ Len(Procs(r)) = 2
        /\ Procs(r)[1].aviso = "popup_nao_abriu" /\ ~Procs(r)[1].popupOpened
        /\ Procs(r)[2].aviso = Absent

\* C6 (as claimed): a record carries the warning only if no popup window was
\* opened for its link, and a record whose window did open never carries it.
C6_WarningOnlyWithoutPopup ==
    \A r \in Reqs :
        \A a \in DOMAIN Procs(r) :
            Procs(r)[a].aviso # Absent => ~Procs(r)[a].popupOpened

\* C7: when no frame shows the document input, the run raises
\* "campo_input_nao_encontrado" into its own handler; a result with that
\* erro_interno has an empty processos list, comes from a run that did no
\* fill and no submit, and is returned with the browser closed.
C7_InputNotFound ==
    /\ [][ \A r \in Reqs :
             FindInputWith(r, FALSE) =>
               /\ sc'[r].result.erro_interno = "campo_input_nao_encontrado"
               /\ sc'[r].pc = "finally"
               /\ sc'[r].pending = "return" ]_vars
    /\ [] ( \A r \in Reqs :
              sc[r].result.erro_interno = "campo_input_nao_encontrado" =>
                /\ Procs(r) = << >>
                /\ "Fill" \notin Range(sc[r].steps)
                /\ "Submit" \notin Range(sc[r].steps)
                /\ sc[r].pc \in { "finally", "returned", "cancelled" }
                /\ sc[r].pc = "returned" => sc[r].browser = "closed" )

\* Reached: a run whose input was not found has returned.
C7_Witness ==
    \E r \in Reqs :
        /\ sc[r].pc = "returned"
        /\ sc[r].result.erro_interno = "campo_input_nao_encontrado"
        /\ sc[r].steps = << "Launch", "Navigate", "SelectKind", "LocateInput",
                            "Teardown" >>
        /\ sc[r].browser = "closed"


\* --------------------------------------------------- C8 .. C10 (SpecGate)

InGate == { r \in Reqs : req[r].pc = "running" }

\* C8: at most one request is inside "async with SEMA" (so at most one
\* scrape_pje task and one browser exist), the permit count says so, and a
\* request blocked at the gate has no task until it is admitted.
C8_OneScrapeAtATime ==
    /\ Cardinality(InGate) <= 1
    /\ sema + Cardinality(InGate) = SemaInit
    /\ \A r \in Reqs : sc[r].pc # "none" => r \in InGate
    /\ \A r \in Reqs : sc[r].browser = "open" => r \in InGate
    /\ \A r \in Reqs : req[r].pc = "waiting" <=>
         \E k \in DOMAIN waiters : waiters[k] = r

\* Reached: the holder's budget has expired and it is in its finally clause,
\* browser still open, while two other requests wait at the gate.
C8_Witness ==
    \E r \in Reqs :
        /\ req[r].pc = "running"
        /\ sc[r].pc = "finally" /\ sc[r].pending = "cancel"
        /\ sc[r].browser = "open"
        /\ Len(waiters) = 2

\* C9: the step in which consulta gets the result of scrape_pje, whatever the
\* result holds, stores it under the request's key with the current time and
\* changes no other entry; the steps that end in 504 or 500 leave the cache
\* unchanged; and no other step (every step of scrape_pje included) changes
\* the cache.
C9_CacheWrittenOnResult ==
    [][ /\ \A r \in Reqs :
             ( req[r].pc = "running" /\ req'[r].pc = "done" ) =>
                 IF sc[r].pc = "returned"
                 THEN /\ DOMAIN cache' = DOMAIN cache \cup { KeyOf(r) }
                      /\ cache'[KeyOf(r)] = [ ts |-> now, data |-> sc[r].result ]
                      /\ \A k \in DOMAIN cache : k # KeyOf(r) => cache'[k] = cache[k]
                      /\ sent' = Response(200, << sc[r].result >>)
                 ELSE /\ cache' = cache
                      /\ sent'.status \in { 504, 500 }
        /\ cache' # cache =>
             \E r \in Reqs : /\ req[r].pc = "running" /\ req'[r].pc = "done"
                             /\ sc[r].pc = "returned"
      ]_vars

\* Reached: the cache holds, under different keys, a result with a caught
\* failure and a "no records" result.
C9_Witness ==
    \E k1, k2 \in DOMAIN cache :
        /\ cache[k1].data.erro_interno = "campo_input_nao_encontrado"
        /\ cache[k2].data.mensagem = "nenhum_processo_encontrado"

\* C10: a request whose key has an entry with now - ts < 300 is answered in
\* its first step with the stored data: permits, waiters and tasks stay as
\* they are, whoever holds the gate.  A request with a valid document whose
\* key has no entry, or one with now - ts >= 300, gets no answer in that
\* step and goes to the gate (it holds it or waits for it).
C10_FreshEntryServed ==
    [][ \A r \in Reqs : \A in \in Inputs :
          ( ArriveWith(r, in) /\ sanitize_doc(in.doc) # << >> ) =>
            LET key == CacheKey(NormType(in.type), sanitize_doc(in.doc))
            IN  IF key \in DOMAIN cache /\ now - cache[key].ts < CACHE_TTL
                THEN /\ sent' = Response(200, << cache[key].data >>)
                     /\ req'[r].pc = "done"
                     /\ UNCHANGED << sema, waiters, sc, cache >>
                ELSE /\ sent' = sent
                     /\ req'[r].pc \in { "running", "waiting" }
                     /\ req'[r].pc = "running" <=> sema' = sema - 1
                     /\ req'[r].pc = "waiting" <=> waiters' = Append(waiters, r)
      ]_vars

\* Reached: the first request has stored its result, the second holds the
\* gate, and the third, which came after the second, has its answer from
\* the cache.
C10_Witness ==
    /\ NumReqs >= 3
    /\ req[1].pc = "done"
    /\ req[2].pc = "running"
    /\ req[3].pc = "done"
    /\ sent.status = 200
    /\ \E k \in DOMAIN cache :
         sent.body = << cache[k].data >> /\ now - cache[k].ts < CACHE_TTL

\* Reached: an entry exactly 300 s old is passed over and the request, for
\* the same key, scrapes again.
C10_ExpiredWitness ==
    \E r \in Reqs :
        /\ req[r].pc = "running"
        /\ sc[r].pc = "launch"
        /\ KeyOf(r) \in DOMAIN cache
        /\ req[r].t0 - cache[KeyOf(r)].ts = CACHE_TTL


\* ------------------------------------------------------ C11 .. C12 (Spec)

\* C11 (as claimed): a request whose 120 s budget expired while its scrape
\* was in flight ends with the timeout answer (504), writes no cache entry,
\* releases the gate, and its browser is not left open.
C11_TimeoutOutcome ==
    [][ \A r \in Reqs :
          ( req[r].cancelSent /\ req'[r].pc = "done" ) =>
            /\ sent'.status = 504
            /\ cache' = cache
            /\ sema' = sema + 1
            /\ sc[r].browser # "open"
      ]_vars

\* C12 (as claimed): scrape_pje is only ever started with a document that is
\* non-empty and made of the characters 0-9 alone.
C12_OnlyAsciiDigits ==
    \A r \in Reqs :
        sc[r].pc # "none" =>
            /\ sc[r].result.documento # << >>
            /\ \A k \in DOMAIN sc[r].result.documento :
                 sc[r].result.documento[k] \in AsciiDigits


\* ------------------------------------------------------- C13 (SpecMeta)

\* The first line that holds one of the keys, 0 if none does.
FirstMatch(keys, lines) ==
    IF \E i \in DOMAIN lines : HasKey(lines[i], keys)
    THEN CHOOSE i \in DOMAIN lines :
             /\ HasKey(lines[i], keys)
             /\ \A j \in 1..(i - 1) : ~HasKey(lines[j], keys)
    ELSE 0

\* The value the first matching line alone decides: its text right of the
\* separator, else the line after it, else None.
FirstMatchValue(keys, lines) ==
    LET i == FirstMatch(keys, lines)
    IN  IF i = 0 THEN Nothing
        ELSE IF RightOfSep(lines[i]) # << >> /\ ~Unwanted(RightOfSep(lines[i]))
             THEN Just(RightOfSep(lines[i]))
        ELSE IF i + 1 <= Len(lines) /\ ~Unwanted(lines[i + 1])
             THEN Just(lines[i + 1])
        ELSE Nothing

\* C13 (as claimed): every field extract_metadata returns for a readable body
\* is the value decided by the first line that holds one of the field's keys
\* (None when that line and the one after it give only noise or nothing), and
\* None if no line holds a key.
C13_FirstLabelDecides ==
    ( popup.pc = "read" /\ popup.readable /\ popup.tables = << >> ) =>
        \A f \in DOMAIN FieldKeys :
            popup.meta[f] = FirstMatchValue(FieldKeys[f], BodyLinesOf(popup.body))


\* ------------------------------------------------------ C14 .. C17 (Spec)

\* C14 (as claimed): a run that waited for the results and then went to its
\* end without entering the link loop (found = false) did so on the "no
\* records" phrase, or only once time had run out: not while the clock
\* still shows the time at which the run began.
C14_GivesUpOnlyOnPhraseOrTimeout ==
    \A r \in Reqs :
        ( /\ sc[r].pc = "returned"
          /\ "AwaitResults" \in Range(sc[r].steps)
          /\ "Extract" \notin Range(sc[r].steps)
          /\ sc[r].result.erro_interno = Absent ) =>
            \/ sc[r].result.mensagem = "nenhum_processo_encontrado"
            \/ now > req[r].t0

\* C15 (as claimed): when the submit control is found and the interactive
\* click on it fails, the run is not aborted: no erro_interno is set and the
\* run goes on to wait for the results.
C15_FailedClickFallsBack ==
    [][ \A r \in Reqs :
          SubmitWith(r, TRUE, FALSE) =>
            /\ sc'[r].pc = "wait"
            /\ sc'[r].result.erro_interno = Absent
      ]_vars

\* C16 (as claimed): at most one popup window is open at any time, none is
\* open when the run turns to the next link, and none is open when the loop
\* has run through the last link.
C16_PopupsClosed ==
    \A r \in Reqs :
        /\ sc[r].popups <= 1
        /\ sc[r].pc = "link" => sc[r].popups = 0
        /\ ( /\ sc[r].pc = "finally"
             /\ sc[r].pending = "return"
             /\ sc[r].result.erro_interno = Absent ) => sc[r].popups = 0

\* The place of each step in the order of an invocation.
StepRank(name) ==
    CASE name = "Launch" -> 1
      [] name = "Navigate" -> 2
      [] name = "SelectKind" -> 3
      [] name = "LocateInput" -> 4
      [] name = "Fill" -> 5
      [] name = "Submit" -> 6
      [] name = "AwaitResults" -> 7
      [] name \in { "NoResults", "Extract" } -> 8
      [] name = "Teardown" -> 9

\* C17: the steps of a run are taken in the order Launch, Navigate,
\* SelectKind, LocateInput, Fill, Submit, AwaitResults, NoResults or Extract,
\* Teardown: none twice, none before an earlier one, none skipped except by
\* the jump to Teardown.  In the loop each link is read once, in index order,
\* one at a time, and the records of processos are in the index order of the
\* links they came from.
C17_StepsInOrder ==
    /\ [] ( \A r \in Reqs :
              LET st == sc[r].steps
                  ps == Procs(r)
              IN  /\ \A a, b \in DOMAIN st :
                        a < b => StepRank(st[a]) < StepRank(st[b])
                  /\ \A a \in DOMAIN st :
                        st[a] # "Teardown" => StepRank(st[a]) = a
                  /\ sc[r].pc \in { "popup", "extract" } =>
                        Len(sc[r].texts) = sc[r].i + 1
                  /\ Len(sc[r].texts) \in { sc[r].i, sc[r].i + 1 }
                  /\ sc[r].texts # << >> => "Extract" \in Range(st)
                  /\ \A a, b \in DOMAIN ps : a < b => ps[a].link < ps[b].link
                  /\ \A a \in DOMAIN ps : ps[a].link < Len(sc[r].texts) )
    /\ [][ \A r \in Reqs :
             ( sc[r].pc # "none" /\ sc'[r].pc # "none" ) =>
                 /\ sc'[r].i \in { sc[r].i, sc[r].i + 1 }
                 /\ \/ sc'[r].steps = sc[r].steps
                    \/ \E name \in { "Launch", "Navigate", "SelectKind",
                                     "LocateInput", "Fill", "Submit",
                                     "AwaitResults", "NoResults", "Extract",
                                     "Teardown" } :
                          sc'[r].steps = Append(sc[r].steps, name)
                 /\ \/ sc'[r].result.processos = Procs(r)
                    \/ /\ Len(sc'[r].result.processos) = Len(Procs(r)) + 1
                       /\ SubSeq(sc'[r].result.processos, 1, Len(Procs(r))) = Procs(r)
                       /\ Last(sc'[r].result.processos).link = sc[r].i
       ]_vars

\* Reached: a run went through every step, read two links and returned the
\* record of the first link before that of the second.
C17_Witness ==
    \E r \in Reqs :
        /\ sc[r].pc = "returned"
        /\ sc[r].steps = << "Launch", "Navigate", "SelectKind", "LocateInput",
                            "Fill", "Submit", "AwaitResults", "Extract",
                            "Teardown" >>
        /\ Len(Procs(r)) = 2
        /\ Procs(r)[1].link = 0 /\ Procs(r)[2].link = 1


\* ------------------------------------------------------- C18 (SpecMovs)

\* The first selector that finds a row, 0 if none does.
FirstWithRows(tables) ==
    IF \E s \in DOMAIN tables : tables[s] # << >>
    THEN CHOOSE s \in DOMAIN tables :
             /\ tables[s] # << >>
             /\ \A j \in 1..(s - 1) : tables[j] = << >>
    ELSE 0

\* C18 (as claimed): the movements returned for a popup are texts of rows of
\* the first selector that finds a row and of no other selector, also when a
\* row read raises; they keep the row order, are at most 20, pairwise
\* different, not empty and not noise.
C18_OneSelectorOnly ==
    ( popup.pc = "read" /\ Len(popup.tables) = NumSelectors ) =>
        LET m == popup.movs
            f == FirstWithRows(popup.tables)
        IN  /\ f = 0 => m = << >>
            /\ f # 0 =>
                 /\ Range(m) \subseteq Range(popup.tables[f])
                 /\ \A a, b \in DOMAIN m : a < b =>
                      \E p, q \in DOMAIN popup.tables[f] :
                          /\ p < q
                          /\ popup.tables[f][p] = m[a]
                          /\ popup.tables[f][q] = m[b]
            /\ Len(m) <= MAX_ROWS
            /\ \A a, b \in DOMAIN m : m[a] = m[b] => a = b
            /\ \A a \in DOMAIN m : m[a] # << >> /\ ~Unwanted(m[a])


\* ------------------------------------------------ C19 .. C20 (SpecGate)

\* C19 (as claimed): a request whose scrape is under way did not start it
\* while the cache held, for its key, an entry younger than CACHE_TTL.  (The
\* gate admits one scrape at a time, so an entry the cache holds for the key
\* of the running request was stored before that request's scrape began.)
C19_NoScrapeWhileFresh ==
    \A r \in Reqs :
        ( req[r].pc = "running" /\ KeyOf(r) \in DOMAIN cache ) =>
            req[r].t0 - cache[KeyOf(r)].ts >= CACHE_TTL

\* C19 (amended): a request that comes in while the cache holds an entry
\* younger than CACHE_TTL for its key starts no scrape and does not go to
\* the gate; a scrape that starts while such an entry exists is that of a
\* request which was waiting at the gate, and it starts without a second
\* look at the cache.
C19_OnlyWaitersScrapeAgain ==
    [][ \A r \in Reqs :
          /\ \A in \in Inputs :
               LET key == CacheKey(NormType(in.type), sanitize_doc(in.doc))
               IN  ( /\ ArriveWith(r, in)
                     /\ key \in DOMAIN cache
                     /\ now - cache[key].ts < CACHE_TTL ) =>
                       /\ req'[r].pc = "done"
                       /\ UNCHANGED << sc, sema, waiters >>
          /\ ( /\ sc[r].pc = "none" /\ sc'[r].pc = "launch"
               /\ KeyOf(r)' \in DOMAIN cache
               /\ now - cache[KeyOf(r)'].ts < CACHE_TTL ) =>
                 /\ req[r].pc = "waiting"
                 /\ Head(waiters) = r
          /\ Admit(r) => sc'[r].pc = "launch"
      ]_vars

\* Reached: the first request has stored its result and the second, which
\* asked for the same key and waited at the gate meanwhile, is scraping
\* although the entry is fresh.
C19_Witness ==
    /\ NumReqs >= 2
    /\ req[1].pc = "done"
    /\ req[2].pc = "running"
    /\ sc[2].pc = "launch"
    /\ DOMAIN cache = { KeyOf(2) }
    /\ req[2].t0 - cache[KeyOf(2)].ts < CACHE_TTL

\* C20 (as claimed): every answer a request to /consulta receives is one of
\* four: a cached result or a fresh result (200), a timeout error (504), an
\* internal error (500).
C20_FourOutcomes == sent.status \in { 0, 200, 504, 500 }

\* C20 (amended): the holder of the gate releases it in the step in which it
\* is answered, whether with its result (200), the timeout error (504) or the
\* internal error (500); eventually every request that came in has been
\* answered for good, and a request that waited at the gate got there only
\* by being admitted.  The answers are the four above and one more: a
\* request whose document is empty after sanitize_doc is answered with the
\* validation error (400) in its first step.
C20_EveryRequestAnswered ==
    /\ <>[] ( \A r \in Reqs : req[r].pc \in { "idle", "done" } )
    /\ [][ \A r \in Reqs :
             /\ req[r].pc = "done" => req'[r].pc = "done"
             /\ ( req[r].pc = "running" /\ req'[r].pc = "done" ) =>
                  /\ sema' = sema + 1
                  /\ sent'.status \in { 200, 504, 500 }
             /\ \A in \in Inputs :
                  ( ArriveWith(r, in) /\ req'[r].pc = "done" ) =>
                      /\ sent'.status \in { 200, 400 }
                      /\ sent'.status = 400 <=> sanitize_doc(in.doc) = << >>
                      /\ UNCHANGED << sema, waiters, cache, sc >>
             /\ req[r].pc = "waiting" => req'[r].pc \in { "waiting", "running" }
       ]_vars

\* Reached: the holder ran out of time and released the gate while two
\* requests were waiting for it; the first of them is about to be admitted.
C20_Witness ==
    /\ sema = SemaInit
    /\ Len(waiters) = 2
    /\ sent.status = 504
    /\ \E r \in Reqs : req[r].pc = "done"

====
